---- MODULE Spec2Model ----
(***************************************************************************)
(* minha-hq: a comic store (two SQLite tables behind five Express routes), *)
(* the Gemini client (generateComicStory, generatePanelImage) and the      *)
(* creation workflow of the front end (handleCreateComic).                 *)
(*                                                                         *)
(* Texts are sequences of one-character strings, so that the fence         *)
(* stripping, the trim and the JSON parse of generateComicStory act on     *)
(* characters as the code does.                                            *)
(***************************************************************************)
EXTENDS Integers, Sequences, FiniteSets, TLC

(***************************************************************************)
(* Bounds of the model.                                                    *)
(***************************************************************************)
\* requests the external API client may send
MaxApiCalls == 3
\* creation workflows the front end may start
MaxRuns == 1
\* content parts per candidate of an image response
MaxParts == 2
\* candidates of an image response
MaxCandidates == 2
\* panels of a generated story
MaxPanels == 2

(***************************************************************************)
(* Texts.                                                                  *)
(***************************************************************************)
\* the backtick character (U+0060), which a TLA+ string cannot hold
BT == "BACKTICK"
QUOTE == "\""
BACKSLASH == "\\"
NL == "\n"

\* the two patterns of /```json|```/g
FenceJson == <<BT, BT, BT, "j", "s", "o", "n">>
Fence == <<BT, BT, BT>>

\* s starts with p at position i
StartsWithAt(s, p, i) ==
  /\ i + Len(p) - 1 <= Len(s)
  /\ \A k \in 1..Len(p) : s[i + k - 1] = p[k]

\* the first position from i on where a fence starts, Len(s) + 1 if none
NextFence(s, i) ==
  LET hits == {k \in i..Len(s) : StartsWithAt(s, Fence, k)} IN
  IF hits = {} THEN Len(s) + 1 ELSE CHOOSE k \in hits : \A m \in hits : k <= m

\* text.replace(/```json|```/g, ""): leftmost match first, the longer
\* alternative tried first, matches never overlap
RECURSIVE ReplaceFencesFrom(_, _)
ReplaceFencesFrom(s, i) ==
  LET j == NextFence(s, i) IN
  IF j > Len(s) THEN SubSeq(s, i, Len(s))
  ELSE SubSeq(s, i, j - 1)
       \o ReplaceFencesFrom(s, j + (IF StartsWithAt(s, FenceJson, j)
                                    THEN Len(FenceJson) ELSE Len(Fence)))

\* a plausible slip: the pattern without the g flag, the first match alone
\* is removed
ReplaceFirstFence(s) ==
  LET j == NextFence(s, 1) IN
  IF j > Len(s) THEN s
  ELSE SubSeq(s, 1, j - 1)
       \o SubSeq(s, j + (IF StartsWithAt(s, FenceJson, j) THEN Len(FenceJson) ELSE Len(Fence)),
                 Len(s))

ReplaceFences(s) == ReplaceFencesFrom(s, 1)

IsWs(c) == c \in {" ", NL, "\t", "\r"}

\* the first position from i on that holds no white space
SkipWs(s, i) ==
  CHOOSE j \in i..(Len(s) + 1) :
    /\ j = Len(s) + 1 \/ ~IsWs(s[j])
    /\ \A k \in i..(j - 1) : IsWs(s[k])

\* the last position up to i that holds no white space
SkipWsBack(s, i) ==
  CHOOSE j \in 0..i :
    /\ j = 0 \/ ~IsWs(s[j])
    /\ \A k \in (j + 1)..i : IsWs(s[k])

\* String.prototype.trim
Trim(s) == SubSeq(s, SkipWs(s, 1), SkipWsBack(s, Len(s)))

(***************************************************************************)
(* JSON values and JSON.parse, for the grammar of objects, arrays, strings *)
(* (with the escapes \" \\ \n) and null.                                   *)
(***************************************************************************)
JNull == [type |-> "null"]
JUndefined == [type |-> "undefined"]
JString(cs) == [type |-> "string", chars |-> cs]
JArray(vs) == [type |-> "array", items |-> vs]
JObject(ms) == [type |-> "object", members |-> ms]
Member(k, v) == [key |-> k, value |-> v]

ParseFail == [ok |-> FALSE, pos |-> 0]
ParseOk(v, p) == [ok |-> TRUE, val |-> v, pos |-> p]

NullLit == <<"n", "u", "l", "l">>

RECURSIVE ParseValue(_, _)
RECURSIVE ParseElements(_, _, _)
RECURSIVE ParseMembers(_, _, _)

\* the backslashes that stand right before position k, back to position i
BackslashRun(s, i, k) ==
  IF k = i \/ s[k - 1] # BACKSLASH THEN 0
  ELSE LET stops == {m \in i..(k - 1) : s[m] # BACKSLASH} IN
    IF stops = {} THEN k - i
    ELSE k - 1 - (CHOOSE m \in stops : \A n \in stops : n <= m)

\* the characters at the positions P of s, in order
Pick(s, P) ==
  [n \in 1..Cardinality(P) |-> s[CHOOSE p \in P : Cardinality({q \in P : q <= p}) = n]]

\* a string literal; i is the position after the opening quote
ParseStringBody(s, i, acc) ==
  LET closing == {k \in i..Len(s) : s[k] = QUOTE /\ BackslashRun(s, i, k) % 2 = 0} IN
  IF closing = {} THEN ParseFail
  ELSE LET e == CHOOSE k \in closing : \A m \in closing : k <= m
           \* the backslashes that introduce an escape, and the escaped ones
           intro == {k \in i..(e - 1) : s[k] = BACKSLASH /\ BackslashRun(s, i, k) % 2 = 0}
           unesc == [k \in i..(e - 1) |->
                       IF k - 1 \in intro /\ s[k] = "n" THEN NL ELSE s[k]] IN
    IF \E k \in intro : s[k + 1] \notin {QUOTE, BACKSLASH, "n"} THEN ParseFail
    ELSE IF \E k \in i..(e - 1) : s[k] \in {NL, "\t", "\r"} THEN ParseFail
    ELSE ParseOk(JString(acc \o Pick(unesc, (i..(e - 1)) \ intro)), e + 1)

\* i is the position of the next element
ParseElements(s, i, acc) ==
  LET r == ParseValue(s, i) IN
  IF ~r.ok THEN ParseFail
  ELSE LET j == SkipWs(s, r.pos) IN
    IF j > Len(s) THEN ParseFail
    ELSE IF s[j] = "," THEN ParseElements(s, j + 1, Append(acc, r.val))
    ELSE IF s[j] = "]" THEN ParseOk(JArray(Append(acc, r.val)), j + 1)
    ELSE ParseFail

\* i is the position where the next key is expected
ParseMembers(s, i, acc) ==
  LET j == SkipWs(s, i) IN
  IF j > Len(s) \/ s[j] # QUOTE THEN ParseFail
  ELSE LET k == ParseStringBody(s, j + 1, <<>>) IN
    IF ~k.ok THEN ParseFail
    ELSE LET c == SkipWs(s, k.pos) IN
      IF c > Len(s) \/ s[c] # ":" THEN ParseFail
      ELSE LET v == ParseValue(s, c + 1) IN
        IF ~v.ok THEN ParseFail
        ELSE LET e == SkipWs(s, v.pos)
                 ms == Append(acc, Member(k.val.chars, v.val)) IN
          IF e > Len(s) THEN ParseFail
          ELSE IF s[e] = "," THEN ParseMembers(s, e + 1, ms)
          ELSE IF s[e] = "}" THEN ParseOk(JObject(ms), e + 1)
          ELSE ParseFail

ParseValue(s, i) ==
  LET j == SkipWs(s, i) IN
  IF j > Len(s) THEN ParseFail
  ELSE IF s[j] = QUOTE THEN ParseStringBody(s, j + 1, <<>>)
  ELSE IF s[j] = "[" THEN
    LET k == SkipWs(s, j + 1) IN
    IF k <= Len(s) /\ s[k] = "]" THEN ParseOk(JArray(<<>>), k + 1)
    ELSE ParseElements(s, j + 1, <<>>)
  ELSE IF s[j] = "{" THEN
    LET k == SkipWs(s, j + 1) IN
    IF k <= Len(s) /\ s[k] = "}" THEN ParseOk(JObject(<<>>), k + 1)
    ELSE ParseMembers(s, j + 1, <<>>)
  ELSE IF StartsWithAt(s, NullLit, j) THEN ParseOk(JNull, j + Len(NullLit))
  ELSE ParseFail

\* JSON.parse: [ok |-> FALSE] stands for the SyntaxError it throws
JSONParse(s) ==
  LET r == ParseValue(s, 1) IN
  IF r.ok /\ SkipWs(s, r.pos) = Len(s) + 1 THEN [ok |-> TRUE, val |-> r.val]
  ELSE [ok |-> FALSE, val |-> JUndefined]

\* obj.key of JavaScript on a parsed value: the last member of that name,
\* undefined when there is none or the value is a string or an array
RECURSIVE LookupFrom(_, _, _)
LookupFrom(ms, key, i) ==
  IF i = 0 THEN JUndefined
  ELSE IF ms[i].key = key THEN ms[i].value
  ELSE LookupFrom(ms, key, i - 1)

Prop(v, key) ==
  IF v.type = "object" THEN LookupFrom(v.members, key, Len(v.members)) ELSE JUndefined

(***************************************************************************)
(* The Gemini client.                                                      *)
(***************************************************************************)
K_title == <<"t", "i", "t", "l", "e">>
K_panels == <<"p", "a", "n", "e", "l", "s">>
K_visualDescription == <<"v", "i", "s", "u", "a", "l", "D", "e", "s", "c", "r", "i", "p", "t", "i", "o", "n">>
K_caption == <<"c", "a", "p", "t", "i", "o", "n">>

\* "História Sem Título"
FallbackTitle == <<"H", "i", "s", "t", "ó", "r", "i", "a", " ", "S", "e", "m", " ", "T", "í", "t", "u", "l", "o">>

\* { title: "História Sem Título", panels: [] }
FallbackStory == JObject(<<Member(K_title, JString(FallbackTitle)), Member(K_panels, JArray(<<>>))>>)

\* what an async function hands its caller: a value, or a rejection
Returned(v) == [threw |-> FALSE, error |-> "", value |-> v]
Thrown(e) == [threw |-> TRUE, error |-> e, value |-> JUndefined]

\* a plausible slip: the client is built without looking at the key
getAIUnchecked(key) == ""

\* getAI: the error it throws when GEMINI_API_KEY is unset, "" otherwise
getAI(key) == IF ~key THEN "GEMINI_API_KEY is not set" ELSE ""

\* response.text || "{}": an absent and an empty text are both falsy
TextOr(text) == IF text = <<>> THEN <<"{", "}">> ELSE text

\* a plausible slip: the parse outside the try block
ParseResponseTextUncaught(text) ==
  LET r == JSONParse(Trim(ReplaceFences(TextOr(text)))) IN
  IF r.ok THEN Returned(r.val) ELSE Thrown("SyntaxError")

\* the try block of generateComicStory on response.text
ParseResponseText(text) ==
  LET r == JSONParse(Trim(ReplaceFences(TextOr(text)))) IN
  IF r.ok THEN Returned(r.val) ELSE Returned(FallbackStory)

\* generateComicStory, given the environment's key and the provider's answer
\* resp = [ok |-> the request resolved, text |-> response.text]
generateComicStory(key, resp) ==
  IF getAI(key) # "" THEN Thrown(getAI(key))
  ELSE IF ~resp.ok THEN Thrown("ApiError")
  ELSE ParseResponseText(resp.text)

\* "data:image/png;base64,"
DataUriPrefix == <<"d", "a", "t", "a", ":", "i", "m", "a", "g", "e", "/", "p", "n", "g", ";", "b", "a", "s", "e", "6", "4", ",">>

\* content parts of a response; a part either is text or has inlineData
TextPart == [inline |-> FALSE, data |-> <<>>]
InlinePart(d) == [inline |-> TRUE, data |-> d]
\* a candidate; content may be absent
Candidate(ps) == [hasContent |-> TRUE, parts |-> ps]
NoContent == [hasContent |-> FALSE, parts |-> <<>>]

\* the image value handed back: a data URI, or null
ImageUrl(u) == [type |-> "string", chars |-> u]

\* response.candidates?.[0]?.content?.parts || []
FirstParts(cands) ==
  IF Len(cands) = 0 THEN <<>>
  ELSE IF ~cands[1].hasContent THEN <<>>
  ELSE cands[1].parts

\* a plausible slip: the loop keeps the last inline part, not the first
RECURSIVE ScanPartsLast(_, _)
ScanPartsLast(ps, i) ==
  IF i > Len(ps) THEN JNull
  ELSE LET rest == ScanPartsLast(ps, i + 1) IN
    IF rest # JNull THEN rest
    ELSE IF ps[i].inline THEN ImageUrl(DataUriPrefix \o ps[i].data)
    ELSE JNull

\* for (const part of parts) { if (part.inlineData) return `data:...`; } return null
RECURSIVE ScanParts(_, _)
ScanParts(ps, i) ==
  IF i > Len(ps) THEN JNull
  ELSE IF ps[i].inline THEN ImageUrl(DataUriPrefix \o ps[i].data)
  ELSE ScanParts(ps, i + 1)

\* generatePanelImage, given the environment's key and the provider's answer
\* resp = [ok |-> the request resolved, candidates |-> response.candidates]
generatePanelImage(key, resp) ==
  IF getAI(key) # "" THEN Thrown(getAI(key))
  ELSE IF ~resp.ok THEN Thrown("ApiError")
  ELSE Returned(ScanParts(FirstParts(resp.candidates), 1))

\* translateText, given the environment's key and the provider's answer
\* resp = [ok |-> the request resolved, hasText |-> response.text is there,
\*         text |-> response.text]
translateText(key, resp) ==
  IF getAI(key) # "" THEN Thrown(getAI(key))
  ELSE IF ~resp.ok THEN Thrown("ApiError")
  ELSE Returned(IF resp.hasText THEN JString(resp.text) ELSE JUndefined)

\* const ai = getAI(); await ai.models.generateContent(...): the first
\* statement of each of the three functions; the request leaves only on the
\* client getAI returned
RequestSent(key) == getAI(key) = ""

(***************************************************************************)
(* The store and the HTTP API (server.ts).                                 *)
(***************************************************************************)
VARIABLES
  apiKey,       \* process.env.GEMINI_API_KEY is set
  foreignKeys,  \* the connection enforces FOREIGN KEY clauses
  comics,       \* table comics, rows in insertion order
  panels,       \* table panels, rows in insertion order
  nextUuid,     \* uuidv4(): the next fresh identifier
  deleted,      \* history: ids of comics a DELETE removed
  last,         \* history: the latest request with its response, if a GET or a DELETE
  rt,           \* history: the round trip the latest requests make up
  apiCalls,     \* requests sent so far by the external API client
  wf,           \* the front end: handleCreateComic and its React state
  probe         \* a direct call of a client function: input and result

vars == <<apiKey, foreignKeys, comics, panels, nextUuid, deleted, last, rt, apiCalls, wf, probe>>

\* an id no uuidv4() call ever returned
NoSuchId == 0

ComicRow(id, title, description) == [id |-> id, title |-> title, description |-> description]
PanelRow(id, comic_id, image_url, caption, order_index) ==
  [id |-> id, comic_id |-> comic_id, image_url |-> image_url, caption |-> caption,
   order_index |-> order_index]

ComicIds == {comics[n].id : n \in DOMAIN comics}
PanelsOf(id) == {n \in DOMAIN panels : panels[n].comic_id = id}

RECURSIVE Without(_, _)
\* DELETE FROM t WHERE ...: the rows whose position is not in drop, order kept
Without(rows, drop) ==
  IF rows = <<>> THEN <<>>
  ELSE LET n == Len(rows)
           front == Without(SubSeq(rows, 1, n - 1), drop) IN
    IF n \in drop THEN front ELSE Append(front, rows[n])

\* better-sqlite3 binds strings and null; undefined is a TypeError
Bindable(v) == v.type \in {"string", "null"}

Request(method, route, id, body) == [method |-> method, route |-> route, id |-> id, body |-> body]
NoBody == [none |-> TRUE]
Response(status, body) == [status |-> status, body |-> body]
\* the statement threw: express answers 500 with an HTML page
ServerError == Response(500, [html |-> TRUE])

Outcome(c, p, u, d, r) == [comics |-> c, panels |-> p, nextUuid |-> u, deleted |-> d, resp |-> r]
Unchanged(r) == Outcome(comics, panels, nextUuid, deleted, r)

\* app.post("/api/comics")
PostComics(body) ==
  IF ~Bindable(body.title) \/ ~Bindable(body.description) \/ body.title.type = "null"
  THEN {Unchanged(ServerError)}
  ELSE {Outcome(Append(comics, ComicRow(nextUuid, body.title, body.description)),
                panels, nextUuid + 1, deleted,
                Response(200, [id |-> nextUuid, title |-> body.title,
                               description |-> body.description]))}

\* the orders in which ORDER BY order_index ASC may return the rows at the
\* positions S of table panels: ascending, rows of equal order_index in any
\* order
RECURSIVE Ascending(_)
Ascending(S) ==
  IF S = {} THEN {<<>>}
  ELSE UNION {{<<panels[m]>> \o rest : rest \in Ascending(S \ {m})}
                : m \in {x \in S : \A y \in S : panels[x].order_index <= panels[y].order_index}}

\* a plausible slip: the rows in insertion order, the ORDER BY clause left out
RECURSIVE InsertionOrder(_)
InsertionOrder(S) ==
  IF S = {} THEN {<<>>}
  ELSE LET m == CHOOSE x \in S : \A y \in S : x <= y IN
       {<<panels[m]>> \o rest : rest \in InsertionOrder(S \ {m})}

OrderedPanelsUnsorted(id) == InsertionOrder(PanelsOf(id))

\* SELECT * FROM panels WHERE comic_id = ? ORDER BY order_index ASC
OrderedPanels(id) == Ascending(PanelsOf(id))

\* app.get("/api/comics/:id")
GetComic(id) ==
  IF id \notin ComicIds THEN {Unchanged(Response(404, [error |-> "Comic not found"]))}
  ELSE LET comic == CHOOSE c \in {comics[n] : n \in DOMAIN comics} : c.id = id IN
    {Unchanged(Response(200, [id |-> comic.id, title |-> comic.title,
                              description |-> comic.description, panels |-> ps]))
       : ps \in OrderedPanels(id)}

\* a plausible slip: the comic is deleted, its panels are left behind
DeleteComicOnly(id) ==
  {Outcome(Without(comics, {n \in DOMAIN comics : comics[n].id = id}),
           panels,
           nextUuid,
           IF id \in ComicIds THEN deleted \cup {id} ELSE deleted,
           Response(200, [success |-> TRUE]))}

\* app.delete("/api/comics/:id")
DeleteComic(id) ==
  {Outcome(Without(comics, {n \in DOMAIN comics : comics[n].id = id}),
           Without(panels, PanelsOf(id)),
           nextUuid,
           IF id \in ComicIds THEN deleted \cup {id} ELSE deleted,
           Response(200, [success |-> TRUE]))}

\* a plausible slip: image_url and caption bound in the wrong order
PostPanelSwapped(id, body) ==
  IF \/ ~Bindable(body.image_url)
     \/ ~Bindable(body.caption)
     \/ (foreignKeys /\ id \notin ComicIds)
  THEN {Unchanged(ServerError)}
  ELSE {Outcome(comics,
                Append(panels, PanelRow(nextUuid, id, body.caption, body.image_url,
                                        body.order_index)),
                nextUuid + 1, deleted,
                Response(200, [id |-> nextUuid, image_url |-> body.image_url,
                               caption |-> body.caption,
                               order_index |-> body.order_index]))}

\* app.post("/api/comics/:id/panels")
PostPanel(id, body) ==
  IF \/ ~Bindable(body.image_url)
     \/ ~Bindable(body.caption)
     \/ (foreignKeys /\ id \notin ComicIds)
  THEN {Unchanged(ServerError)}
  ELSE {Outcome(comics,
                Append(panels, PanelRow(nextUuid, id, body.image_url, body.caption,
                                        body.order_index)),
                nextUuid + 1, deleted,
                Response(200, [id |-> nextUuid, image_url |-> body.image_url,
                               caption |-> body.caption,
                               order_index |-> body.order_index]))}

\* the route table: the outcomes of one request
Serve(req) ==
  IF req.method = "POST" /\ req.route = "/api/comics" THEN PostComics(req.body)
  ELSE IF req.method = "GET" /\ req.route = "/api/comics/:id" THEN GetComic(req.id)
  ELSE IF req.method = "DELETE" /\ req.route = "/api/comics/:id" THEN DeleteComic(req.id)
  ELSE PostPanel(req.id, req.body)

NoExchange == [req |-> Request("", "", NoSuchId, NoBody), resp |-> Response(0, NoBody)]
NoRoundTrip == [stage |-> 0, id |-> NoSuchId, comic |-> NoBody, panel |-> NoBody, got |-> NoBody]

\* where the latest requests stand in the sequence POST /api/comics, then
\* POST /api/comics/:id/panels on the id returned, then GET /api/comics/:id:
\* stage is the number of its requests answered, nothing else in between
Observe(o, req, resp) ==
  IF req.method = "POST" /\ req.route = "/api/comics" /\ resp.status = 200
  THEN [NoRoundTrip EXCEPT !.stage = 1, !.id = resp.body.id, !.comic = req.body]
  ELSE IF o.stage = 1 /\ req.method = "POST" /\ req.route = "/api/comics/:id/panels"
          /\ req.id = o.id /\ resp.status = 200
  THEN [o EXCEPT !.stage = 2, !.panel = req.body]
  ELSE IF o.stage = 2 /\ req.method = "GET" /\ req.id = o.id
  THEN [o EXCEPT !.stage = 3, !.got = resp]
  ELSE NoRoundTrip

\* the server handles req with outcome o
Handle(req, o) ==
  /\ comics' = o.comics
  /\ panels' = o.panels
  /\ nextUuid' = o.nextUuid
  /\ deleted' = o.deleted
  /\ last' = IF req.method \in {"GET", "DELETE"} THEN [req |-> req, resp |-> o.resp]
              ELSE NoExchange
  /\ rt' = Observe(rt, req, o.resp)

(***************************************************************************)
(* Inputs: what the provider may answer and what the API client may send.  *)
(***************************************************************************)
RECURSIVE EscapeChars(_)
EscapeChars(cs) ==
  IF cs = <<>> THEN <<>>
  ELSE (IF Head(cs) \in {QUOTE, BACKSLASH} THEN <<BACKSLASH, Head(cs)>>
        ELSE IF Head(cs) = NL THEN <<BACKSLASH, "n">>
        ELSE <<Head(cs)>>) \o EscapeChars(Tail(cs))

RECURSIVE Stringify(_)
RECURSIVE StringifyItems(_, _)
RECURSIVE StringifyMembers(_, _)

StringifyItems(vs, i) ==
  IF i > Len(vs) THEN <<>>
  ELSE (IF i > 1 THEN <<",">> ELSE <<>>) \o Stringify(vs[i]) \o StringifyItems(vs, i + 1)

StringifyMembers(ms, i) ==
  IF i > Len(ms) THEN <<>>
  ELSE (IF i > 1 THEN <<",">> ELSE <<>>)
       \o <<QUOTE>> \o EscapeChars(ms[i].key) \o <<QUOTE, ":">> \o Stringify(ms[i].value)
       \o StringifyMembers(ms, i + 1)

\* JSON.stringify
Stringify(v) ==
  IF v.type = "string" THEN <<QUOTE>> \o EscapeChars(v.chars) \o <<QUOTE>>
  ELSE IF v.type = "array" THEN <<"[">> \o StringifyItems(v.items, 1) \o <<"]">>
  ELSE IF v.type = "object" THEN <<"{">> \o StringifyMembers(v.members, 1) \o <<"}">>
  ELSE NullLit

\* a story as responseSchema describes it
Story(t, ps) == JObject(<<Member(K_title, JString(t)), Member(K_panels, JArray(ps))>>)
PanelSpec(d, c) ==
  JObject(<<Member(K_visualDescription, JString(d)), Member(K_caption, JString(c))>>)

SeqsUpTo(S, n) == UNION {[1..k -> S] : k \in 0..n}

\* titles and panels of the payloads, fence characters among them
PayloadTitles ==
  { <<"A">>,
    <<BT, BT, BT>>,
    <<"x", BT, BT, BT, "j", "s", "o", "n", "y">>,
    <<BT, BT, BT, BT>>,
    <<"q", QUOTE, NL, BACKSLASH>> }
PayloadPanels == { PanelSpec(<<"d">>, <<"c">>), PanelSpec(<<BT, BT, BT, "e">>, <<BT, "f", BT, BT>>) }

\* JSON story payloads: compact, and one laid out with white space
StoryPayloads ==
  {Stringify(Story(t, ps)) : t \in PayloadTitles, ps \in SeqsUpTo(PayloadPanels, MaxPanels)}
  \cup {<<" ", "{", NL>> \o Stringify(JString(K_title)) \o <<" ", ":", " ">>
            \o Stringify(JString(t)) \o <<",", NL>> \o Stringify(JString(K_panels))
            \o <<":", "[", " ", "]", NL, "}", NL>>
          : t \in PayloadTitles}

\* response texts that are no JSON
GarbageTexts ==
  { <<"o", "o", "p", "s">>,
    <<" ">>,
    <<"{">>,
    <<"{", "}", "x">>,
    <<"[", ",", "]">>,
    <<"{", QUOTE, "a", QUOTE, "}">>,
    <<QUOTE, "a">>,
    <<BT, BT, BT>>,
    <<"n", "u", "l">>,
    <<"H", "i", ":", " ">> \o Stringify(Story(<<"A">>, <<>>)) }

EmptyText == <<>>

\* the fences the pattern of generateComicStory names
FenceKinds == {FenceJson, Fence}
\* J wrapped in a markdown code fence: ```json\nJ\n```
Wrap(fence, j) == fence \o <<NL>> \o j \o <<NL>> \o Fence

\* what the provider answers to the story request of a workflow
WorkflowStoryResponses ==
  {[ok |-> TRUE, text |-> t] :
     t \in {Stringify(Story(<<"A">>, ps)) : ps \in SeqsUpTo({PanelSpec(<<"d">>, <<"c">>)}, MaxPanels)}
           \cup {Wrap(FenceJson, Stringify(Story(<<"B">>, <<PanelSpec(<<"d">>, <<"c">>)>>))),
                 EmptyText, NullLit, <<"o", "o", "p", "s">>}}
  \cup {[ok |-> FALSE, text |-> EmptyText]}

ImageData == {<<"Q">>, <<"R">>}
PartChoices == {TextPart} \cup {InlinePart(d) : d \in ImageData}
CandidateChoices == {NoContent} \cup {Candidate(ps) : ps \in SeqsUpTo(PartChoices, MaxParts)}
\* image responses a direct call is tried on
ImageResponses ==
  {[ok |-> TRUE, candidates |-> cs] : cs \in SeqsUpTo(CandidateChoices, MaxCandidates)}

\* what the provider answers to an image request of a workflow
WorkflowImageResponses ==
  { [ok |-> TRUE, candidates |-> <<Candidate(<<TextPart, InlinePart(<<"Q">>)>>)>>],
    [ok |-> TRUE, candidates |-> <<Candidate(<<TextPart>>)>>],
    [ok |-> FALSE, candidates |-> <<>>] }

\* what the provider answers to a translation request
TranslateResponses ==
  { [ok |-> TRUE, hasText |-> TRUE, text |-> <<"o", "l", "á">>],
    [ok |-> TRUE, hasText |-> FALSE, text |-> <<>>],
    [ok |-> FALSE, hasText |-> FALSE, text |-> <<>>] }

\* what the external API client puts in request bodies
ApiComicBodies == {[title |-> JString(<<"T">>), description |-> JString(<<"D">>)],
                   [title |-> JNull, description |-> JString(<<"D">>)]}
ApiPanelBodies ==
  {[image_url |-> ImageUrl(DataUriPrefix \o <<"Z">>), caption |-> JString(<<"C">>), order_index |-> k]
     : k \in {0, 1}}
\* ids a client names: a comic's, a deleted comic's, and one that never
\* was a comic's
KnownIds == {NoSuchId} \cup ComicIds \cup deleted

(***************************************************************************)
(* The front end: handleCreateComic, one step per await.                   *)
(***************************************************************************)
\* the prompt typed into the form; handleCreateComic returns at once on ""
Prompt == JString(<<"P">>)

Ev(name, i) == [ev |-> name, i |-> i]

WfIdle ==
  [pc |-> "idle", runs |-> 0, isLoading |-> FALSE, view |-> "home", outcome |-> "none",
   story |-> JNull, comicId |-> NoSuchId, i |-> 0, imageUrl |-> JNull,
   pushed |-> <<>>, events |-> <<>>]

\* a plausible slip: only a missing panel list aborts, an empty one does not
StoryAbortsOnlyMissing(v) ==
  \/ v.type = "null"
  \/ Prop(v, K_panels).type \in {"undefined", "null"}

\* story.panels of a null story is a TypeError; then
\* if (!story.panels || story.panels.length === 0) throw
StoryAborts(v) ==
  \/ v.type = "null"
  \/ Prop(v, K_panels).type \in {"undefined", "null"}
  \/ Prop(v, K_panels).type = "string" /\ Prop(v, K_panels).chars = <<>>
  \/ Prop(v, K_panels).type = "array" /\ Prop(v, K_panels).items = <<>>

\* story.panels.length as the loop test i < story.panels.length sees it
PanelCount(v) ==
  LET p == Prop(v, K_panels) IN
  IF p.type = "array" THEN Len(p.items)
  ELSE IF p.type = "string" THEN Len(p.chars)
  ELSE 0

\* story.panels[i]
PanelAt(v, i) ==
  LET p == Prop(v, K_panels) IN
  IF p.type = "array" THEN p.items[i + 1] ELSE JString(<<p.chars[i + 1]>>)

\* catch: the alert; finally: the loading state is cleared
Catch(w) ==
  [w EXCEPT !.pc = "idle", !.isLoading = FALSE, !.outcome = "alert",
            !.i = 0, !.imageUrl = JNull]

\* the lines after the loop: the viewer opens on the new comic
Finish(w) ==
  [w EXCEPT !.pc = "idle", !.isLoading = FALSE, !.outcome = "viewer", !.view = "viewer",
            !.i = 0, !.imageUrl = JNull]

\* a plausible slip: the image call is not awaited, the loop goes on
CallImageNoAwait(w) ==
  [w EXCEPT !.i = @ + 1, !.events = Append(@, Ev("img_start", w.i))]

\* const imageUrl = await generatePanelImage(...): the call starts and
\* handleCreateComic is suspended until it settles
CallImage(w) ==
  [w EXCEPT !.pc = "image", !.events = Append(@, Ev("img_start", w.i))]

StoreUnchanged == UNCHANGED <<comics, panels, nextUuid, deleted, last, rt>>

\* the create button: disabled={isLoading || !prompt}
WfClick ==
  /\ wf.pc = "idle" /\ ~wf.isLoading
  /\ wf.runs < MaxRuns
  /\ wf' = [WfIdle EXCEPT !.pc = "story", !.runs = wf.runs + 1, !.isLoading = TRUE,
                          !.view = wf.view]
  /\ StoreUnchanged
  /\ UNCHANGED <<apiKey, foreignKeys, apiCalls, probe>>

\* await generateComicStory, the check of the panels, and fetch POST
\* /api/comics sent
WfStory ==
  /\ wf.pc = "story"
  /\ \E resp \in WorkflowStoryResponses :
       LET r == generateComicStory(apiKey, resp) IN
       wf' = IF r.threw \/ StoryAborts(r.value)
             THEN Catch([wf EXCEPT !.story = r.value,
                                   !.events = IF getAI(apiKey) = ""
                                              THEN Append(@, Ev("story_call", 0)) ELSE @])
             ELSE [wf EXCEPT !.pc = "postComic", !.story = r.value,
                             !.events = @ \o <<Ev("story_call", 0), Ev("comic_start", 0)>>]
  /\ StoreUnchanged
  /\ UNCHANGED <<apiKey, foreignKeys, apiCalls, probe>>

\* the server answers POST /api/comics; await res.json() throws on the
\* HTML of an error page
WfPostComic ==
  /\ wf.pc = "postComic"
  /\ LET req == Request("POST", "/api/comics", NoSuchId,
                        [title |-> Prop(wf.story, K_title), description |-> Prompt]) IN
     \E o \in Serve(req) :
       /\ Handle(req, o)
       /\ wf' = IF o.resp.status # 200
                THEN Catch([wf EXCEPT !.events = Append(@, Ev("comic_end", 0))])
                ELSE [wf EXCEPT !.pc = "loop", !.comicId = o.resp.body.id, !.i = 0,
                                !.events = Append(@, Ev("comic_end", 0))]
  /\ UNCHANGED <<apiKey, foreignKeys, apiCalls, probe>>

\* the head of the for loop
WfLoop ==
  /\ wf.pc = "loop"
  /\ wf' = IF wf.i < PanelCount(wf.story) THEN CallImage(wf) ELSE Finish(wf)
  /\ StoreUnchanged
  /\ UNCHANGED <<apiKey, foreignKeys, apiCalls, probe>>

\* a plausible slip: a failed image call takes the comic back out of the store
WfImageRollback ==
  /\ wf.pc = "image"
  /\ \E resp \in WorkflowImageResponses :
       LET r == generatePanelImage(apiKey, resp)
           done == [wf EXCEPT !.events = Append(@, Ev("img_end", wf.i))]
           req == Request("DELETE", "/api/comics/:id", wf.comicId, NoBody) IN
       IF r.threw
       THEN /\ \E o \in Serve(req) : Handle(req, o)
            /\ wf' = Catch(done)
       ELSE /\ wf' = IF r.value = JNull THEN [done EXCEPT !.pc = "loop", !.i = @ + 1]
                     ELSE [done EXCEPT !.pc = "postPanel", !.imageUrl = r.value,
                                       !.events = Append(@, Ev("post_start", wf.i))]
            /\ StoreUnchanged
  /\ UNCHANGED <<apiKey, foreignKeys, apiCalls, probe>>

\* generatePanelImage settles; if (imageUrl) fetch POST .../panels is sent
WfImage ==
  /\ wf.pc = "image"
  /\ \E resp \in WorkflowImageResponses :
       LET r == generatePanelImage(apiKey, resp)
           done == [wf EXCEPT !.events = Append(@, Ev("img_end", wf.i))] IN
       wf' = IF r.threw THEN Catch(done)
             ELSE IF r.value = JNull THEN [done EXCEPT !.pc = "loop", !.i = @ + 1]
             ELSE [done EXCEPT !.pc = "postPanel", !.imageUrl = r.value,
                               !.events = Append(@, Ev("post_start", wf.i))]
  /\ StoreUnchanged
  /\ UNCHANGED <<apiKey, foreignKeys, apiCalls, probe>>

\* the server answers POST /api/comics/:id/panels; panels.push(panel)
WfPostPanel ==
  /\ wf.pc = "postPanel"
  /\ LET req == Request("POST", "/api/comics/:id/panels", wf.comicId,
                        [image_url |-> wf.imageUrl,
                         caption |-> Prop(PanelAt(wf.story, wf.i), K_caption),
                         order_index |-> wf.i]) IN
     \E o \in Serve(req) :
       /\ Handle(req, o)
       /\ wf' = IF o.resp.status # 200
                THEN Catch([wf EXCEPT !.events = Append(@, Ev("post_end", wf.i))])
                ELSE [wf EXCEPT !.pc = "loop", !.i = @ + 1,
                                !.pushed = Append(@, o.resp.body.id),
                                !.events = Append(@, Ev("post_end", wf.i))]
  /\ UNCHANGED <<apiKey, foreignKeys, apiCalls, probe>>

(***************************************************************************)
(* Any other client of the HTTP API.                                       *)
(***************************************************************************)
ApiSend(req) ==
  /\ apiCalls < MaxApiCalls
  /\ apiCalls' = apiCalls + 1
  /\ \E o \in Serve(req) : Handle(req, o)
  /\ UNCHANGED <<apiKey, foreignKeys, wf, probe>>

ApiPostComic == \E b \in ApiComicBodies : ApiSend(Request("POST", "/api/comics", NoSuchId, b))
ApiGetComic == \E id \in KnownIds : ApiSend(Request("GET", "/api/comics/:id", id, NoBody))
ApiDeleteComic == \E id \in KnownIds : ApiSend(Request("DELETE", "/api/comics/:id", id, NoBody))
ApiPostPanel ==
  \E id \in KnownIds, b \in ApiPanelBodies :
    ApiSend(Request("POST", "/api/comics/:id/panels", id, b))

NoProbe == [fn |-> "none"]

\* the process starts: db.exec(CREATE TABLE IF NOT EXISTS ...) on a new
\* database file; no route and no statement sets the foreign_keys pragma,
\* so the enforcement is the default of the SQLite build that is linked
InitSystem ==
  /\ apiKey \in BOOLEAN
  /\ foreignKeys \in BOOLEAN
  /\ comics = <<>>
  /\ panels = <<>>
  /\ nextUuid = 1
  /\ deleted = {}
  /\ last = NoExchange
  /\ rt = NoRoundTrip
  /\ apiCalls = 0
  /\ wf = WfIdle

Init == InitSystem /\ probe = NoProbe

Next ==
  \/ WfClick
  \/ WfStory
  \/ WfPostComic
  \/ WfLoop
  \/ WfImage
  \/ WfPostPanel
  \/ ApiPostComic
  \/ ApiGetComic
  \/ ApiDeleteComic
  \/ ApiPostPanel

Spec == Init /\ [][Next]_vars

(***************************************************************************)
(* Direct calls of the client functions, on every input of a bounded set.  *)
(***************************************************************************)
NotCalled == [threw |-> FALSE, error |-> "not called", value |-> JUndefined]

\* response texts generateComicStory is tried on
StoryTexts == StoryPayloads \cup GarbageTexts \cup {EmptyText}

InitStory ==
  /\ InitSystem
  /\ ~foreignKeys
  /\ probe \in {[fn |-> "story", text |-> t, fence |-> f, plain |-> NotCalled, fenced |-> NotCalled]
                  : t \in StoryTexts, f \in FenceKinds}

\* generateComicStory when the provider answers probe.text
StoryPlain ==
  /\ probe.fn = "story" /\ probe.plain = NotCalled
  /\ probe' = [probe EXCEPT !.plain = generateComicStory(apiKey, [ok |-> TRUE, text |-> probe.text])]
  /\ UNCHANGED <<apiKey, foreignKeys, comics, panels, nextUuid, deleted, last, rt, apiCalls, wf>>

\* generateComicStory when the provider answers probe.text in a code fence
StoryFenced ==
  /\ probe.fn = "story" /\ probe.fenced = NotCalled
  /\ probe' = [probe EXCEPT !.fenced =
                 generateComicStory(apiKey, [ok |-> TRUE, text |-> Wrap(probe.fence, probe.text)])]
  /\ UNCHANGED <<apiKey, foreignKeys, comics, panels, nextUuid, deleted, last, rt, apiCalls, wf>>

NextStory == StoryPlain \/ StoryFenced

SpecStory == InitStory /\ [][NextStory]_vars

InitImage ==
  /\ InitSystem
  /\ ~foreignKeys
  /\ probe \in {[fn |-> "image", resp |-> r, out |-> NotCalled] : r \in ImageResponses}

\* generatePanelImage when the provider answers probe.resp
ImageCall ==
  /\ probe.fn = "image" /\ probe.out = NotCalled
  /\ probe' = [probe EXCEPT !.out = generatePanelImage(apiKey, probe.resp)]
  /\ UNCHANGED <<apiKey, foreignKeys, comics, panels, nextUuid, deleted, last, rt, apiCalls, wf>>

NextImage == ImageCall

SpecImage == InitImage /\ [][NextImage]_vars

\* a direct call: whether its request left, and how the call settled
Called(sent, out) == [sent |-> sent, out |-> out]
NeverCalled == Called(FALSE, NotCalled)

\* the front end with its server and no other client; next to it the three
\* functions that call the provider, each called once directly
InitClient ==
  /\ InitSystem
  /\ probe = [fn |-> "client", story |-> NeverCalled, image |-> NeverCalled,
                                   translate |-> NeverCalled]

FrontEnd == WfClick \/ WfStory \/ WfPostComic \/ WfLoop \/ WfImage \/ WfPostPanel

DirectStory ==
  /\ probe.fn = "client" /\ probe.story = NeverCalled
  /\ \E resp \in {r \in WorkflowStoryResponses : r.text \in {EmptyText, NullLit}} :
       probe' = [probe EXCEPT !.story = Called(RequestSent(apiKey), generateComicStory(apiKey, resp))]
  /\ UNCHANGED <<apiKey, foreignKeys, comics, panels, nextUuid, deleted, last, rt, apiCalls, wf>>

DirectImage ==
  /\ probe.fn = "client" /\ probe.image = NeverCalled
  /\ \E resp \in WorkflowImageResponses :
       probe' = [probe EXCEPT !.image = Called(RequestSent(apiKey), generatePanelImage(apiKey, resp))]
  /\ UNCHANGED <<apiKey, foreignKeys, comics, panels, nextUuid, deleted, last, rt, apiCalls, wf>>

DirectTranslate ==
  /\ probe.fn = "client" /\ probe.translate = NeverCalled
  /\ \E resp \in TranslateResponses :
       probe' = [probe EXCEPT !.translate = Called(RequestSent(apiKey), translateText(apiKey, resp))]
  /\ UNCHANGED <<apiKey, foreignKeys, comics, panels, nextUuid, deleted, last, rt, apiCalls, wf>>

NextClient == FrontEnd \/ DirectStory \/ DirectImage \/ DirectTranslate

SpecClient == InitClient /\ [][NextClient]_vars

(***************************************************************************)
(* Properties.                                                             *)
(***************************************************************************)
IsGet(e) == e.req.method = "GET"
IsDelete(e) == e.req.method = "DELETE"
Positions(name, i) == {p \in DOMAIN wf.events : wf.events[p] = Ev(name, i)}
Happened(name) == \E p \in DOMAIN wf.events : wf.events[p].ev = name

C2_UniqueOrderIndex ==
  \A a, b \in DOMAIN panels :
    (a # b /\ panels[a].comic_id = panels[b].comic_id)
      => panels[a].order_index # panels[b].order_index

\* the panels of comic id in the order they were created
RECURSIVE CreationOrderOf(_, _)
CreationOrderOf(id, n) ==
  IF n = 0 THEN <<>>
  ELSE IF panels[n].comic_id = id THEN Append(CreationOrderOf(id, n - 1), panels[n])
  ELSE CreationOrderOf(id, n - 1)

\* C3: GET /api/comics/:id answers with the comic's panels sorted ascending
\* by order_index, and that sequence is the order the panels were created in.
C3_SortedInCreationOrder ==
  (IsGet(last) /\ last.resp.status = 200) =>
    LET ps == last.resp.body.panels IN
    /\ \A a, b \in DOMAIN ps : a < b => ps[a].order_index <= ps[b].order_index
    /\ ps = CreationOrderOf(last.req.id, Len(panels))

\* C4: when DELETE /api/comics/:id has completed, the store holds neither
\* the comic nor a panel of it, and every GET of a deleted comic's id that
\* is answered later is answered 404.
C4_DeletedStaysGone ==
  /\ IsDelete(last) =>
       /\ last.resp.status = 200
       /\ last.req.id \notin ComicIds
       /\ PanelsOf(last.req.id) = {}
  /\ (IsGet(last) /\ last.req.id \in deleted) => last.resp.status = 404

\* a comic with a panel was deleted, and a GET of its id answered 404
C4_Witness ==
  /\ IsGet(last) /\ last.req.id \in deleted /\ last.resp.status = 404
  /\ \E p \in DOMAIN wf.pushed : wf.comicId = last.req.id

\* the story that came back has no panels: the value is null, or its panel
\* list is missing, null or empty
ZeroPanels(v) ==
  \/ v.type # "object"
  \/ \A m \in DOMAIN v.members :
       (v.members[m].key = K_panels /\ \A n \in (m + 1)..Len(v.members) : v.members[n].key # K_panels)
         => \/ v.members[m].value.type = "null"
            \/ v.members[m].value.type = "array" /\ v.members[m].value.items = <<>>

\* C5: a workflow whose story generation returned zero panels issues no
\* POST /api/comics and no image-generation call, and creates no record.
C5_ZeroPanelsAborts ==
  (Happened("story_call") /\ ZeroPanels(wf.story)) =>
    /\ ~Happened("comic_start")
    /\ ~Happened("img_start")
    /\ wf.comicId = NoSuchId
    /\ wf.pushed = <<>>
    /\ wf.pc = "idle" /\ wf.outcome = "alert"

\* a parse failure gave the degenerate story and the workflow stopped with
\* the store still empty
C5_Witness ==
  /\ Happened("story_call") /\ wf.story = FallbackStory
  /\ wf.outcome = "alert" /\ comics = <<>> /\ panels = <<>>

Starts == {"img_start", "post_start"}
EndOf(name) == IF name = "img_start" THEN "img_end" ELSE "post_end"

\* C6: within one workflow a call (image generation or panel write) starts
\* only when every call started before it has completed; the write of panel
\* i follows the completion of its image call, and the calls of panel i + 1
\* follow those of panel i.
C6_StrictlySequential ==
  \A p \in DOMAIN wf.events :
    wf.events[p].ev \in Starts =>
      /\ \A q \in 1..(p - 1) :
           wf.events[q].ev \in Starts =>
             /\ wf.events[q].i <= wf.events[p].i
             /\ \E r \in (q + 1)..(p - 1) :
                  wf.events[r] = Ev(EndOf(wf.events[q].ev), wf.events[q].i)
      /\ wf.events[p].ev = "post_start" =>
           \E q \in 1..(p - 1) : wf.events[q] = Ev("img_end", wf.events[p].i)
      /\ wf.events[p].ev = "img_start" =>
           \A q \in 1..(p - 1) : wf.events[q].ev = "img_start" => wf.events[q].i < wf.events[p].i

\* the image call of the second panel has started after the first panel was
\* written
C6_Witness == Positions("post_end", 0) # {} /\ Positions("img_start", 1) # {}

\* { title: "Untitled", panels: [] }
UntitledStory ==
  JObject(<<Member(K_title, JString(<<"U", "n", "t", "i", "t", "l", "e", "d">>)),
            Member(K_panels, JArray(<<>>))>>)

StoryCalled == probe.fn = "story" /\ apiKey /\ probe.plain # NotCalled

\* C7 as stated: on a response text that is no JSON, or is empty,
\* generateComicStory does not throw and returns { title: "Untitled", panels: [] }.
C7_ReturnsUntitled ==
  (StoryCalled /\ probe.text \in GarbageTexts \cup {EmptyText}) =>
    probe.plain = Returned(UntitledStory)

\* C7 amended: generateComicStory throws on no response text, whatever it
\* holds; on a text that is no JSON it returns
\* { title: "História Sem Título", panels: [] }, and on an empty text it
\* returns the empty object {}.
C7_ReturnsFallback ==
  StoryCalled =>
    /\ ~probe.plain.threw
    /\ probe.text \in GarbageTexts => probe.plain = Returned(FallbackStory)
    /\ probe.text = EmptyText => probe.plain = Returned(JObject(<<>>))

C7_Witness ==
  /\ StoryCalled /\ probe.text = <<"{", "}", "x">>
  /\ probe.plain = Returned(FallbackStory)

\* C8: POST /api/comics {T, D}, then POST /api/comics/:id/panels {I, C, k}
\* on the id returned, then GET /api/comics/:id answers 200 with that id, T,
\* D and exactly one panel, whose image_url, caption and order_index are I,
\* C and k.
C8_RoundTrip ==
  rt.stage = 3 =>
    /\ rt.got.status = 200
    /\ rt.got.body.id = rt.id
    /\ rt.got.body.title = rt.comic.title
    /\ rt.got.body.description = rt.comic.description
    /\ Len(rt.got.body.panels) = 1
    /\ rt.got.body.panels[1].comic_id = rt.id
    /\ rt.got.body.panels[1].image_url = rt.panel.image_url
    /\ rt.got.body.panels[1].caption = rt.panel.caption
    /\ rt.got.body.panels[1].order_index = rt.panel.order_index

\* the round trip made by the API client alone, with order_index 1
C8_Witness ==
  /\ rt.stage = 3 /\ rt.got.status = 200
  /\ rt.comic.title = JString(<<"T">>) /\ rt.panel.order_index = 1
  /\ rt.got.body.panels[1].order_index = 1

\* C9: for every JSON story payload J, generateComicStory returns on J in a
\* markdown code fence what it returns on J itself.
C9_FenceIsTransparent ==
  ( /\ probe.fn = "story" /\ apiKey
    /\ probe.text \in StoryPayloads
    /\ probe.plain # NotCalled /\ probe.fenced # NotCalled )
  => probe.fenced = probe.plain

\* a payload whose title holds a fence was parsed out of a fence
C9_Witness ==
  /\ probe.fn = "story" /\ apiKey
  /\ probe.text = Stringify(Story(<<"x", BT, BT, BT, "j", "s", "o", "n", "y">>,
                                  <<PanelSpec(<<"d">>, <<"c">>)>>))
  /\ probe.plain # NotCalled
  /\ probe.fenced = Returned(Story(<<"x", "y">>, <<PanelSpec(<<"d">>, <<"c">>)>>))

\* the content parts generatePanelImage looks at: those of the first candidate
PartsOf(resp) ==
  IF resp.candidates = <<>> \/ ~resp.candidates[1].hasContent THEN <<>>
  ELSE resp.candidates[1].parts

\* C10: generatePanelImage returns the data of the first content part that
\* has inline data, as a data URI, and null, with no error, when no part has.
C10_FirstInlinePart ==
  (probe.fn = "image" /\ apiKey /\ probe.out # NotCalled) =>
    LET ps == PartsOf(probe.resp)
        hits == {k \in DOMAIN ps : ps[k].inline} IN
    /\ ~probe.out.threw
    /\ hits = {} => probe.out.value = JNull
    /\ hits # {} =>
         \E k \in hits :
           /\ \A m \in hits : k <= m
           /\ probe.out.value = ImageUrl(DataUriPrefix \o ps[k].data)

\* two inline parts: the first one is returned
C10_Witness ==
  /\ probe.fn = "image" /\ apiKey
  /\ probe.resp.candidates = <<Candidate(<<InlinePart(<<"R">>), InlinePart(<<"Q">>)>>)>>
  /\ probe.out = Returned(ImageUrl(DataUriPrefix \o <<"R">>))

MissingCredential == Thrown("GEMINI_API_KEY is not set")

\* C11: with the credential absent, each of generateComicStory,
\* generatePanelImage and translateText, once called, has failed with the
\* missing-credential error and no request left for the provider; and a
\* creation workflow sends no request to the provider, posts no comic and no
\* panel, and leaves the store without any comic or panel row
C11_NoCredentialNoRequest ==
  ~apiKey =>
    /\ \A f \in {"story", "image", "translate"} :
         probe[f] # NeverCalled => ~probe[f].sent /\ probe[f].out = MissingCredential
    /\ ~Happened("story_call") /\ ~Happened("comic_start") /\ ~Happened("post_start")
    /\ wf.comicId = NoSuchId /\ wf.pushed = <<>>
    /\ comics = <<>> /\ panels = <<>>
    /\ (wf.pc = "idle" /\ wf.runs > 0 => wf.outcome = "alert")

\* the credential is absent, all three functions were called and a creation
\* workflow has run to its end
C11_Witness ==
  /\ ~apiKey
  /\ \A f \in {"story", "image", "translate"} : probe[f] # NeverCalled
  /\ wf.pc = "idle" /\ wf.runs > 0 /\ wf.outcome = "alert"

\* rows of table panels that carry comic id
PanelRowsOf(id) == {panels[n] : n \in PanelsOf(id)}
\* the ids of the panels of comic id, in insertion order
RECURSIVE PanelIdsFrom(_, _)
PanelIdsFrom(id, n) ==
  IF n > Len(panels) THEN <<>>
  ELSE (IF panels[n].comic_id = id THEN <<panels[n].id>> ELSE <<>>) \o PanelIdsFrom(id, n + 1)

LastEvent(w) == w.events[Len(w.events)]
\* the workflow was stopped by a generatePanelImage call that threw
ImageFailed(w) ==
  /\ w.pc = "idle" /\ w.outcome = "alert"
  /\ w.events # <<>> /\ LastEvent(w).ev = "img_end"

\* the comic of the stopped workflow is in the store with exactly the panels
\* posted before the failure, fewer than the story has
LeftPartial ==
  ImageFailed(wf) =>
    /\ LastEvent(wf).i < PanelCount(wf.story)
    /\ wf.comicId \in ComicIds
    /\ PanelIdsFrom(wf.comicId, 1) = wf.pushed
    /\ Len(wf.pushed) <= LastEvent(wf).i
    /\ Len(wf.pushed) < PanelCount(wf.story)
    /\ \A row \in PanelRowsOf(wf.comicId) : row.order_index < LastEvent(wf).i

\* C12: when the image call for panel k of an n-panel story throws, the
\* workflow stops with the comic still in the store, holding exactly the
\* panels posted before the failure, fewer than n; and no step of the front
\* end ever takes a comic out, or changes the panels of a comic other than
\* the one whose workflow is running, so the partial comic stays as it is
C12_PartialComicStays ==
  [][ /\ LeftPartial /\ LeftPartial'
      /\ \A c \in ComicIds :
           /\ c \in ComicIds'
           /\ (c # wf.comicId \/ wf.pc \in {"idle", "story"} \/ ImageFailed(wf))
                => PanelRowsOf(c)' = PanelRowsOf(c) ]_vars

\* the image call for the second panel threw after the first panel was stored
C12_Witness ==
  /\ ImageFailed(wf) /\ LastEvent(wf).i = 1
  /\ Len(wf.pushed) = 1 /\ PanelCount(wf.story) = 2
  /\ wf.comicId \in ComicIds

\* the workflow ran to its end and opened the viewer on the new comic
ReachedViewer == wf.pc = "idle" /\ wf.outcome = "viewer"

\* C13: whenever a creation workflow over a story of n panels ends in the
\* viewer, without the failure notification, the store holds for its comic
\* exactly n panels, with the order_index values 0..n-1
C13_ViewerMeansComplete ==
  ReachedViewer =>
    LET n == PanelCount(wf.story) IN
    /\ wf.comicId \in ComicIds
    /\ Cardinality(PanelsOf(wf.comicId)) = n
    /\ {row.order_index : row \in PanelRowsOf(wf.comicId)} = 0..(n - 1)

====
